---- MODULE Spec2Model ----
(***************************************************************************)
(* ImgAPICacher: an HTTP image proxy/cache.  The model follows the latest  *)
(* variant of the program (src/unnamed/part_000, lines 408-947): the       *)
(* request handler handleRequest, the remote fetch retrieveRemote, the     *)
(* config reload reloadConfig, and the helpers they call.                  *)
(*                                                                         *)
(* The cache folder is a map from entry names to what the entry is: a      *)
(* directory, or a file with zero bytes, with decodable image bytes or     *)
(* with other bytes.  A handler is cut into steps at the reads and writes  *)
(* of the shared state (config, timestamp, the cache folder, the response) *)
(* whose order concurrent requests can observe; local computation between  *)
(* two such points belongs to the step that follows it.                    *)
(***************************************************************************)
EXTENDS Integers, Sequences, FiniteSets, TLC

(***************************************************************************)
(* Bounds of the model.                                                    *)
(***************************************************************************)
NumReq == 2        \* GET / requests in flight or finished
MaxClock == 2      \* last tick of the clock
TicksPerSec == 1   \* distinct clock readings (time.Now().UnixNano()) per second
MaxTries == 3      \* passes of the selection loop of the earlier variant

Requests == 1..NumReq

(***************************************************************************)
(* Strings.                                                                *)
(***************************************************************************)
UpperAZ == "ABCDEFGHIJKLMNOPQRSTUVWXYZ"
LowerAZ == "abcdefghijklmnopqrstuvwxyz"

Char(s, i) == SubSeq(s, i, i)

UpperChars == { Char(UpperAZ, i) : i \in 1..26 }
LowerOf == [ c \in UpperChars |->
               Char(LowerAZ, CHOOSE i \in 1..26 : Char(UpperAZ, i) = c) ]
LowerChar(c) == IF c \in UpperChars THEN LowerOf[c] ELSE c

RECURSIVE ToLower(_)
ToLower(s) ==
  IF Len(s) = 0 THEN "" ELSE LowerChar(Char(s, 1)) \o ToLower(SubSeq(s, 2, Len(s)))

HasPrefixAt(s, i, p) ==
  /\ i + Len(p) - 1 <= Len(s)
  /\ SubSeq(s, i, i + Len(p) - 1) = p

HasPrefix(s, p) == HasPrefixAt(s, 1, p)

RECURSIVE Replace(_, _, _)
Replace(s, old, new) ==
  IF Len(s) = 0 THEN ""
  ELSE IF HasPrefixAt(s, 1, old)
       THEN new \o Replace(SubSeq(s, Len(old) + 1, Len(s)), old, new)
       ELSE Char(s, 1) \o Replace(SubSeq(s, 2, Len(s)), old, new)

\* the chars of s from i to j hold no newline (the regexp's "." )
NoNewline(s, i, j) == \A k \in i..j : Char(s, k) # "\n"

ImgExtensions == {"jpg", "jpeg", "png"}

\* s[1..j] ends in ".<ext>" with ext one of jpg, jpeg, png in any case
EndsInExtAt(s, j, e) ==
  /\ j - Len(e) >= 1
  /\ Char(s, j - Len(e)) = "."
  /\ ToLower(SubSeq(s, j - Len(e) + 1, j)) = e

(***************************************************************************)
(* Config.                                                                 *)
(***************************************************************************)
Local == "local"
Remote == "remote"
ConfigDefaultListenPort == 8080
ConfigDefaultCacheFolder == "cache"
ConfigDefaultCacheTmpFolder == "tmp"
ConfigDefaultUpdateInterval == 3
ConfigDefaultMaxCacheSize == 0
ConfigDefaultImageQuality == 60
ConfigDefaultRemote1 == "https://api.nyan.xyz/httpapi/sexphoto"
ConfigDefaultRemote2 == "https://loliapi.com/acg"
PathSeparator == "/"
Nil == <<"nil">>

\* newConfig where every ListenPort up to 65535 is kept
newConfigAnyLowPort(c) ==
  [ ListenPort     |-> IF c.ListenPort <= 65535
                       THEN c.ListenPort ELSE ConfigDefaultListenPort,
    LogFileName    |-> c.LogFileName,
    Mode           |-> IF c.Mode = Local \/ c.Mode = Remote THEN c.Mode ELSE Remote,
    CacheFolder    |-> IF c.CacheFolder # "" THEN c.CacheFolder
                       ELSE ConfigDefaultCacheFolder,
    CacheTmpFolder |-> IF c.CacheTmpFolder # "" THEN c.CacheTmpFolder
                       ELSE ConfigDefaultCacheTmpFolder,
    UpdateInterval |-> IF c.UpdateInterval > 0 THEN c.UpdateInterval
                       ELSE ConfigDefaultUpdateInterval,
    MaxCacheSize   |-> IF c.MaxCacheSize >= 0 THEN c.MaxCacheSize
                       ELSE ConfigDefaultMaxCacheSize,
    ImageQuality   |-> IF c.ImageQuality > 0 THEN c.ImageQuality
                       ELSE ConfigDefaultImageQuality,
    Remotes        |-> IF c.Remotes # Nil THEN c.Remotes
                       ELSE <<ConfigDefaultRemote1, ConfigDefaultRemote2>> ]

\* newConfig: every field of the input that is in range, the default otherwise
newConfig(c) ==
  [ ListenPort     |-> IF c.ListenPort >= 1024 /\ c.ListenPort <= 65535
                       THEN c.ListenPort ELSE ConfigDefaultListenPort,
    LogFileName    |-> c.LogFileName,
    Mode           |-> IF c.Mode = Local \/ c.Mode = Remote THEN c.Mode ELSE Remote,
    CacheFolder    |-> IF c.CacheFolder # "" THEN c.CacheFolder
                       ELSE ConfigDefaultCacheFolder,
    CacheTmpFolder |-> IF c.CacheTmpFolder # "" THEN c.CacheTmpFolder
                       ELSE ConfigDefaultCacheTmpFolder,
    UpdateInterval |-> IF c.UpdateInterval > 0 THEN c.UpdateInterval
                       ELSE ConfigDefaultUpdateInterval,
    MaxCacheSize   |-> IF c.MaxCacheSize >= 0 THEN c.MaxCacheSize
                       ELSE ConfigDefaultMaxCacheSize,
    ImageQuality   |-> IF c.ImageQuality > 0 THEN c.ImageQuality
                       ELSE ConfigDefaultImageQuality,
    Remotes        |-> IF c.Remotes # Nil THEN c.Remotes
                       ELSE <<ConfigDefaultRemote1, ConfigDefaultRemote2>> ]

\* the zero value of Config, what getConfig starts from when no file exists
ZeroConfig ==
  [ ListenPort |-> 0, LogFileName |-> "", Mode |-> "", CacheFolder |-> "",
    CacheTmpFolder |-> "", UpdateInterval |-> 0, MaxCacheSize |-> 0,
    ImageQuality |-> 0, Remotes |-> Nil ]

\* the config files the server is started with
StartRemote == "http://i.io/a.JPG"
MaxCacheSizes == {0, 2}
UpdateIntervals == {1}
RemotesLists == {<<>>, <<StartRemote>>}   \* "Remotes": [] and "Remotes": [...]
StartConfigs ==
  { newConfig([ZeroConfig EXCEPT !.Mode = m, !.MaxCacheSize = k,
                                 !.UpdateInterval = u, !.Remotes = l])
      : m \in {Local, Remote}, k \in MaxCacheSizes, u \in UpdateIntervals,
        l \in RemotesLists }

(***************************************************************************)
(* Helper functions of the program.                                        *)
(***************************************************************************)
getExtension(contentType) ==
  IF contentType = "image/jpeg" THEN "jpg"
  ELSE IF contentType = "image/png" THEN "png"
  ELSE ""

\* regexp  .+\.(?i)(jpg|jpeg|png)$  : the captured extension, lower-cased
getImgExtension(filename) ==
  LET n == Len(filename)
      M == { e \in ImgExtensions :
               /\ EndsInExtAt(filename, n, e)
               /\ n - Len(e) - 1 >= 1
               /\ Char(filename, n - Len(e) - 1) # "\n" }
  IN IF M # {} THEN CHOOSE e \in M : TRUE ELSE ""

\* regexp  https?\:\/\/.+\.(?i)(jpg|jpeg|png)  on the response with \/ unescaped:
\* the leftmost match, its .+ greedy
getImgURL(response) ==
  LET t == Replace(response, "\\/", "/")
      PLen(i) == IF HasPrefixAt(t, i, "http://") THEN 7
                 ELSE IF HasPrefixAt(t, i, "https://") THEN 8 ELSE 0
      Ends(i) == { j \in (i + PLen(i) + 1)..Len(t) :
                     \E e \in ImgExtensions :
                        /\ EndsInExtAt(t, j, e)
                        /\ j - Len(e) - 1 >= i + PLen(i)
                        /\ NoNewline(t, i + PLen(i), j - Len(e) - 1) }
      Starts == { i \in 1..Len(t) : PLen(i) > 0 /\ Ends(i) # {} }
  IN IF Starts = {} THEN ""
     ELSE LET i == CHOOSE a \in Starts : \A b \in Starts : a <= b
              j == CHOOSE a \in Ends(i) : \A b \in Ends(i) : b <= a
          IN SubSeq(t, i, j)

\* image.Decode fails on bytes that are no image; the bytes come back either way
compressImage(data) == [ data |-> data, err |-> data # "img" ]

(***************************************************************************)
(* State.                                                                  *)
(***************************************************************************)
VARIABLES
  config,       \* the global config
  configFile,   \* the content of config.json
  timestamp,    \* the global timestamp (seconds)
  clock,        \* the system clock, in ticks
  cacheExists,  \* whether the cache folder exists
  cacheDir,     \* entries of the cache folder: name -> "dir", "empty", "img", "bad"
  tmpDir,       \* files of the tmp folder: name -> "empty", "img", "bad"
  req,          \* per GET / request: the handler's position and locals
  fetch,        \* per GET / request: its call of retrieveRemote
  body,         \* per GET / request: what was written to its response
  reload,       \* the GET /reload handler
  exited,       \* the process was terminated by log.Fatalln
  http,         \* a request followed from the server's routes to its response
  call,         \* a call of a helper function: its argument and what it returned
  bgStart       \* when (seconds) the latest background refresh started

vars == <<config, configFile, timestamp, clock, cacheExists, cacheDir, tmpDir,
          req, fetch, body, reload, exited, http, call, bgStart>>

\* time.Now().Unix() and time.Now().UnixNano(): seconds, and nanoseconds
NanosPerSecond == 1000000000
Unix == clock \div TicksPerSec
UnixNano == clock * (NanosPerSecond \div TicksPerSec)
FormatInt(n) == ToString(n)

Host == "h"

EmptyDir == [n \in {} |-> "dir"]
Put(dir, name, what) ==
  [n \in (DOMAIN dir) \cup {name} |-> IF n = name THEN what ELSE dir[n]]
Del(dir, name) == [n \in (DOMAIN dir) \ {name} |-> dir[n]]

\* ioutil.ReadDir(config.CacheFolder): the entries, each with Name() and IsDir()
ReadDir == { [name |-> n, isDir |-> cacheDir[n] = "dir"] : n \in DOMAIN cacheDir }

NoFile == [name |-> "", isDir |-> FALSE]

\* the cache folders the server may be started on
InitDirs ==
  { [exists |-> FALSE, dir |-> EmptyDir],
    [exists |-> TRUE,  dir |-> EmptyDir],
    [exists |-> TRUE,  dir |-> Put(EmptyDir, "n.txt", "bad")],
    [exists |-> TRUE,  dir |-> Put(Put(EmptyDir, ConfigDefaultCacheTmpFolder, "dir"),
                                   "a.JPG", "img")] }

\* isImage without the test of the extension
isImageAnyName(filename) ==
  /\ cacheExists
  /\ filename \in DOMAIN cacheDir
  /\ cacheDir[filename] \in {"img", "bad"}

\* isImage: a supported extension, and the file opens and a first Read succeeds
\* (a Read of a directory or of a file of zero bytes returns an error)
isImage(filename) ==
  /\ getImgExtension(filename) # ""
  /\ cacheExists
  /\ filename \in DOMAIN cacheDir
  /\ cacheDir[filename] \in {"img", "bad"}

\* the GET /reload handler at rest
NotReloading == [pc |-> "idle", config |-> ZeroConfig]

\* no request is followed through the routes
NoRequest == [pc |-> "idle", method |-> "", path |-> "", status |-> 0,
              cors |-> FALSE, body |-> ""]

\* no helper function is being called
NoCall == [fn |-> "", pc |-> "idle"]

\* no background refresh has started
Never == -1

IdleReq == [pc |-> "idle", files |-> {}, fileIndex |-> NoFile, served |-> FALSE]
IdleFetch ==
  [ pc |-> "idle", async |-> FALSE, imgURL |-> "", extension |-> "",
    filenameUncompressed |-> "", filenameCompressed |-> "", data |-> "",
    wrote |-> FALSE, removed |-> FALSE, flipped |-> FALSE, added |-> 0,
    result |-> "" ]

Init ==
  /\ config \in StartConfigs
  /\ configFile = config
  /\ clock = 0
  /\ timestamp = Unix
  /\ \E d \in InitDirs : cacheExists = d.exists /\ cacheDir = d.dir
  /\ tmpDir = EmptyDir
  /\ req = [r \in Requests |-> IdleReq]
  /\ fetch = [r \in Requests |-> IdleFetch]
  /\ body = [r \in Requests |-> ""]
  /\ reload = NotReloading
  /\ exited = FALSE
  /\ http = NoRequest
  /\ call = NoCall
  /\ bgStart = Never

(***************************************************************************)
(* handleRequest for GET / : the local serve.                              *)
(***************************************************************************)
LocalURL(name) == "http://" \o Host \o "/" \o config.CacheFolder \o "/" \o name

\* files, err := ioutil.ReadDir(config.CacheFolder); the first random pick
ReadCache(r) ==
  /\ ~exited
  /\ req[r].pc = "idle"
  /\ IF ~cacheExists \/ ReadDir = {}
     THEN req' = [req EXCEPT ![r].pc = "check"]
     ELSE \E f \in ReadDir :
            req' = [req EXCEPT ![r].pc = "loop", ![r].files = ReadDir,
                               ![r].fileIndex = f]
  /\ UNCHANGED <<config, configFile, timestamp, bgStart, clock, cacheExists, cacheDir,
                 tmpDir, fetch, body, reload, http, call, exited>>

\* Dropped where the first failure ends the loop
DroppedEndsLoop(r, rq) ==
  rq = [req EXCEPT ![r].pc = "after",
                   ![r].files = req[r].files \ {req[r].fileIndex}]

\* Dropped where the list keeps the entry and the next pick is among all of it
DroppedKeepsList(r, rq) ==
  \E f \in req[r].files :
     rq = [req EXCEPT ![r].pc = "loop", ![r].fileIndex = f]

\* files = append(files[:fileIndex], files[fileIndex+1:]...) and the next pick
Dropped(r, rq) ==
  LET rest == req[r].files \ {req[r].fileIndex}
  IN IF rest = {}
     THEN rq = [req EXCEPT ![r].pc = "after", ![r].files = rest]
     ELSE \E f \in rest :
            rq = [req EXCEPT ![r].pc = "loop", ![r].files = rest, ![r].fileIndex = f]

\* the loop test !isImage(files[fileIndex].Name()), and the IsDir branch
LoopTest(r) ==
  /\ ~exited
  /\ req[r].pc = "loop"
  /\ IF isImage(req[r].fileIndex.name)
     THEN req' = [req EXCEPT ![r].pc = "after"]
     ELSE IF req[r].fileIndex.isDir
          THEN Dropped(r, req')
          ELSE req' = [req EXCEPT ![r].pc = "remove"]
  /\ UNCHANGED <<config, configFile, timestamp, bgStart, clock, cacheExists, cacheDir,
                 tmpDir, fetch, body, reload, http, call, exited>>

\* os.Remove of the entry that is no image; an error (~ok) is only logged
RemoveFile(r) ==
  /\ ~exited
  /\ req[r].pc = "remove"
  /\ \E ok \in BOOLEAN :
       cacheDir' = IF ok THEN Del(cacheDir, req[r].fileIndex.name) ELSE cacheDir
  /\ Dropped(r, req')
  /\ UNCHANGED <<config, configFile, timestamp, bgStart, clock, cacheExists, tmpDir,
                 fetch, body, reload, http, call, exited>>

\* if len(files) == 0 || !isImage(...) : nothing served; else the URL is written
ServeLocal(r) ==
  /\ ~exited
  /\ req[r].pc = "after"
  /\ IF req[r].files = {} \/ ~isImage(req[r].fileIndex.name)
     THEN /\ req' = [req EXCEPT ![r].pc = "check", ![r].files = {},
                             ![r].fileIndex = NoFile]
          /\ body' = body
     ELSE /\ req' = [req EXCEPT ![r].pc = "check", ![r].files = {},
                             ![r].served = TRUE]
          /\ body' = [body EXCEPT ![r] = @ \o LocalURL(req[r].fileIndex.name)]
  /\ UNCHANGED <<config, configFile, timestamp, bgStart, clock, cacheExists, cacheDir,
                 tmpDir, fetch, reload, http, call, exited>>

(***************************************************************************)
(* handleRequest for GET / : the freshness check and the remote refresh.   *)
(***************************************************************************)
\* Fresh without the test of the mode
FreshIgnoresMode == Unix - timestamp < config.UpdateInterval

\* served && (config.Mode == Local || time.Now().Unix()-timestamp < UpdateInterval)
Fresh == config.Mode = Local \/ Unix - timestamp < config.UpdateInterval

\* FreshnessCheck where local mode returns without a fetch also after a failed
\* local serve
FreshnessCheckLocalNeverFetches(r) ==
  /\ ~exited
  /\ req[r].pc = "check"
  /\ IF (req[r].served /\ Fresh) \/ config.Mode = Local
     THEN /\ req' = [req EXCEPT ![r].pc = "done", ![r].fileIndex = NoFile]
          /\ fetch' = fetch
     ELSE IF req[r].served
     THEN /\ req' = [req EXCEPT ![r].pc = "return", ![r].fileIndex = NoFile]
          /\ fetch' = [fetch EXCEPT ![r].pc = "start", ![r].async = TRUE]
     ELSE /\ req' = [req EXCEPT ![r].pc = "wait", ![r].fileIndex = NoFile]
          /\ fetch' = [fetch EXCEPT ![r].pc = "start"]
  /\ UNCHANGED <<config, configFile, timestamp, bgStart, clock, cacheExists, cacheDir,
                 tmpDir, body, reload, http, call, exited>>

\* FreshnessCheck where every fetch is started with the go statement
FreshnessCheckAlwaysGo(r) ==
  /\ ~exited
  /\ req[r].pc = "check"
  /\ IF req[r].served /\ Fresh
     THEN /\ req' = [req EXCEPT ![r].pc = "done", ![r].fileIndex = NoFile]
          /\ fetch' = fetch
     ELSE /\ req' = [req EXCEPT ![r].pc = "return", ![r].fileIndex = NoFile]
          /\ fetch' = [fetch EXCEPT ![r].pc = "start", ![r].async = TRUE]
  /\ UNCHANGED <<config, configFile, timestamp, bgStart, clock, cacheExists, cacheDir,
                 tmpDir, body, reload, http, call, exited>>

\* the freshness check, and the go statement or the call of retrieveRemote
FreshnessCheck(r) ==
  /\ ~exited
  /\ req[r].pc = "check"
  /\ IF req[r].served /\ Fresh
     THEN /\ req' = [req EXCEPT ![r].pc = "done", ![r].fileIndex = NoFile]
          /\ fetch' = fetch
     ELSE IF req[r].served
     THEN /\ req' = [req EXCEPT ![r].pc = "return", ![r].fileIndex = NoFile]
          /\ fetch' = [fetch EXCEPT ![r].pc = "start", ![r].async = TRUE]
     ELSE /\ req' = [req EXCEPT ![r].pc = "wait", ![r].fileIndex = NoFile]
          /\ fetch' = [fetch EXCEPT ![r].pc = "start"]
  /\ UNCHANGED <<config, configFile, timestamp, bgStart, clock, cacheExists, cacheDir,
                 tmpDir, body, reload, http, call, exited>>

\* the handler returns after the go statement: the response is finished
Return(r) ==
  /\ ~exited
  /\ req[r].pc = "return"
  /\ req' = [req EXCEPT ![r].pc = "done"]
  /\ UNCHANGED <<config, configFile, timestamp, bgStart, clock, cacheExists, cacheDir,
                 tmpDir, fetch, body, reload, http, call, exited>>

(***************************************************************************)
(* retrieveRemote.                                                         *)
(***************************************************************************)
\* a return of retrieveRemote (the locals of the call are dropped)
Returned(f, r, res) ==
  [f EXCEPT ![r].pc = "done", ![r].result = res, ![r].imgURL = "",
            ![r].extension = "", ![r].filenameUncompressed = "", ![r].data = ""]

\* a handler that called retrieveRemote itself returns when the call returns
HandlerAfter(r) == IF fetch[r].async THEN req ELSE [req EXCEPT ![r].pc = "done"]

\* timestamp = time.Now().Unix(), the first statement of retrieveRemote (bgStart
\* notes the time when the call is the one of a go statement)
StartRetrieve(r) ==
  /\ ~exited
  /\ fetch[r].pc = "start"
  /\ timestamp' = Unix
  /\ bgStart' = IF fetch[r].async THEN Unix ELSE bgStart
  /\ fetch' = [fetch EXCEPT ![r].pc = "get"]
  /\ UNCHANGED <<config, configFile, clock, cacheExists, cacheDir, tmpDir, req,
                 body, reload, http, call, exited>>

\* what the chosen remote may answer
Responses ==
  { [err |-> TRUE,  StatusCode |-> 0,   ContentType |-> "", readErr |-> FALSE, Body |-> ""],
    [err |-> FALSE, StatusCode |-> 404, ContentType |-> "text/html", readErr |-> FALSE, Body |-> ""],
    [err |-> FALSE, StatusCode |-> 200, ContentType |-> "image/jpeg", readErr |-> FALSE, Body |-> ""],
    [err |-> FALSE, StatusCode |-> 200, ContentType |-> "application/json", readErr |-> TRUE, Body |-> ""],
    [err |-> FALSE, StatusCode |-> 302, ContentType |-> "application/json", readErr |-> FALSE,
     Body |-> "[\"http:\\/\\/i.io\\/a.JPG\"]"],
    [err |-> FALSE, StatusCode |-> 301, ContentType |-> "text/html", readErr |-> FALSE,
     Body |-> "none"] }

\* StatusOK where only 200 passes
StatusOKOnly200(code) == ~(code # 200)

\* response.StatusCode != 200 && != 302 && != 301 is the failure
StatusOK(code) == ~(code # 200 /\ code # 302 /\ code # 301)

\* the error logged for a response of another status
InvalidStatus(code) == "Invalid response status code " \o FormatInt(code)

\* the name of the temporary file in the tmp folder
TmpName(extension) == FormatInt(UnixNano) \o "." \o extension

TmpExists == cacheExists /\ config.CacheTmpFolder \in DOMAIN cacheDir

\* os.Stat of the tmp folder decides between os.Mkdir and the download
AfterStatTmp == IF TmpExists THEN "download" ELSE "mktmp"

\* os.Stat of the cache folder, and of the tmp folder when the cache folder exists
AfterStat == IF cacheExists THEN AfterStatTmp ELSE "mkcache"

\* rand.Intn(len(config.Remotes)) with no remote panics: net/http recovers the
\* panic of a handler (the request ends with nothing more written), and the
\* panic of the goroutine of the go statement ends the process
PanicIntn(r) ==
  IF fetch[r].async
  THEN exited' = TRUE /\ UNCHANGED <<fetch, req>>
  ELSE /\ fetch' = Returned(fetch, r, "panic")
       /\ req' = HandlerAfter(r)
       /\ exited' = exited

\* rand.Intn(len(config.Remotes)), http.Get(remote), the status check, the image
\* URL, the temporary file name, and the os.Stat of the cache folder and of its
\* tmp folder
GetRemote(r) ==
  /\ ~exited
  /\ fetch[r].pc = "get"
  /\ IF config.Remotes = Nil \/ Len(config.Remotes) = 0
     THEN PanicIntn(r)
     ELSE
     /\ exited' = exited
     /\ \E remote \in { config.Remotes[i] : i \in 1..Len(config.Remotes) } :
        \E response \in Responses :
          IF response.err
          THEN fetch' = Returned(fetch, r, "failed") /\ req' = HandlerAfter(r)
          ELSE IF ~StatusOK(response.StatusCode)
          THEN /\ fetch' = Returned(fetch, r, InvalidStatus(response.StatusCode))
               /\ req' = HandlerAfter(r)
          ELSE IF getExtension(response.ContentType) # ""
          THEN /\ fetch' = [fetch EXCEPT ![r].pc = AfterStat, ![r].imgURL = remote,
                              ![r].extension = getExtension(response.ContentType),
                              ![r].filenameUncompressed =
                                  TmpName(getExtension(response.ContentType))]
               /\ req' = req
          ELSE IF response.readErr
          THEN fetch' = Returned(fetch, r, "failed") /\ req' = HandlerAfter(r)
          ELSE LET imgURL == getImgURL(response.Body)
               IN /\ fetch' = [fetch EXCEPT ![r].pc = AfterStat, ![r].imgURL = imgURL,
                                 ![r].extension = getImgExtension(imgURL),
                                 ![r].filenameUncompressed =
                                     TmpName(getImgExtension(imgURL))]
                  /\ req' = req
  /\ UNCHANGED <<config, configFile, timestamp, bgStart, clock, cacheExists, cacheDir,
                 tmpDir, body, reload, http, call>>

\* os.Mkdir(config.CacheFolder, 0755), which fails when the folder exists by now
\* or cannot be created (~ok); log.Fatalln on an error
MkdirCache(r) ==
  /\ ~exited
  /\ fetch[r].pc = "mkcache"
  /\ \E ok \in BOOLEAN :
     IF cacheExists \/ ~ok
     THEN exited' = TRUE /\ UNCHANGED <<cacheExists, fetch>>
     ELSE /\ cacheExists' = TRUE
          /\ fetch' = [fetch EXCEPT ![r].pc = "stattmp"]
          /\ exited' = exited
  /\ UNCHANGED <<config, configFile, timestamp, bgStart, clock, cacheDir, tmpDir, req,
                 body, reload, http, call>>

\* os.Stat of the tmp folder, after the cache folder was created
StatTmp(r) ==
  /\ ~exited
  /\ fetch[r].pc = "stattmp"
  /\ fetch' = [fetch EXCEPT ![r].pc = AfterStatTmp]
  /\ UNCHANGED <<config, configFile, timestamp, bgStart, clock, cacheExists, cacheDir,
                 tmpDir, req, body, reload, http, call, exited>>

\* os.Mkdir of the tmp folder, which fails when the folder exists by now or
\* cannot be created (~ok); log.Fatalln on an error
MkdirTmp(r) ==
  /\ ~exited
  /\ fetch[r].pc = "mktmp"
  /\ \E ok \in BOOLEAN :
     IF TmpExists \/ ~ok
     THEN exited' = TRUE /\ UNCHANGED <<cacheDir, fetch>>
     ELSE /\ cacheDir' = Put(cacheDir, config.CacheTmpFolder, "dir")
          /\ fetch' = [fetch EXCEPT ![r].pc = "download", ![r].added = @ + 1]
          /\ exited' = exited
  /\ UNCHANGED <<config, configFile, timestamp, bgStart, clock, cacheExists, tmpDir, req,
                 body, reload, http, call>>

\* what the download of a non-empty image URL may store in the temporary file
Downloads == {"failed", "img", "bad"}

\* downloadFile(filenameUncompressed, imgURL): os.Create, http.Get, io.Copy
downloadFile(r) ==
  /\ ~exited
  /\ fetch[r].pc = "download"
  /\ \E d \in Downloads :
       IF fetch[r].imgURL = "" \/ d = "failed"
       THEN /\ tmpDir' = Put(tmpDir, fetch[r].filenameUncompressed, "empty")
            /\ fetch' = Returned(fetch, r, "failed")
            /\ req' = HandlerAfter(r)
       ELSE /\ tmpDir' = Put(tmpDir, fetch[r].filenameUncompressed, d)
            /\ fetch' = [fetch EXCEPT ![r].pc = "read"]
            /\ req' = req
  /\ UNCHANGED <<config, configFile, timestamp, bgStart, clock, cacheExists, cacheDir,
                 body, reload, http, call, exited>>

\* the name of the new cache entry, ioutil.ReadFile(filenameUncompressed),
\* compressImage, and the first half of ioutil.WriteFile(filenameCompressed, ...):
\* the file is created, or truncated when it exists (or cannot be: ~ok)
CreateCacheFile(r) ==
  /\ ~exited
  /\ fetch[r].pc = "read"
  /\ \E ok \in BOOLEAN :
     IF fetch[r].filenameUncompressed \in DOMAIN tmpDir /\ ok
     THEN LET name == FormatInt(UnixNano) \o ".jpg"
          IN /\ cacheDir' = Put(cacheDir, name, "empty")
             /\ fetch' = [fetch EXCEPT ![r].pc = "write",
                            ![r].filenameCompressed = name,
                            ![r].data =
                               compressImage(tmpDir[fetch[r].filenameUncompressed]).data,
                            ![r].added = IF name \in DOMAIN cacheDir THEN @ ELSE @ + 1]
             /\ req' = req
     ELSE /\ cacheDir' = cacheDir
          /\ fetch' = Returned(fetch, r, "failed")
          /\ req' = HandlerAfter(r)
  /\ UNCHANGED <<config, configFile, timestamp, bgStart, clock, cacheExists, tmpDir,
                 body, reload, http, call, exited>>

\* the second half of ioutil.WriteFile: the bytes go to the open file (which a
\* concurrent os.Remove may have unlinked: the write succeeds and the entry stays
\* removed); then os.Remove(filenameUncompressed), an error of which (the file is
\* gone, or cannot be removed: ~ok) ends the fetch
WriteCacheFile(r) ==
  /\ ~exited
  /\ fetch[r].pc = "write"
  /\ cacheDir' = IF fetch[r].filenameCompressed \in DOMAIN cacheDir
                 THEN Put(cacheDir, fetch[r].filenameCompressed, fetch[r].data)
                 ELSE cacheDir
  /\ \E ok \in BOOLEAN :
     IF fetch[r].filenameUncompressed \in DOMAIN tmpDir /\ ok
     THEN /\ tmpDir' = Del(tmpDir, fetch[r].filenameUncompressed)
          /\ fetch' = [fetch EXCEPT ![r].pc = "cap", ![r].wrote = TRUE,
                                    ![r].removed = TRUE]
          /\ req' = req
     ELSE /\ tmpDir' = tmpDir
          /\ fetch' = Returned([fetch EXCEPT ![r].wrote = TRUE], r, "failed")
          /\ req' = HandlerAfter(r)
  /\ UNCHANGED <<config, configFile, timestamp, bgStart, clock, cacheExists, body,
                 reload, http, call, exited>>

\* LimitReached with > for >=
LimitReachedStrict ==
  config.MaxCacheSize # 0 /\ Cardinality(ReadDir) > config.MaxCacheSize

\* config.MaxCacheSize != 0 and len(files) >= config.MaxCacheSize, files the
\* listing of the cache folder
LimitReached == config.MaxCacheSize # 0 /\ Cardinality(ReadDir) >= config.MaxCacheSize

\* the file config.json after writeConfig(c)
writeConfig(c) == c

RemoteURL(name) ==
  "http://" \o Host \o "/"
    \o Replace(config.CacheFolder \o PathSeparator \o name, "\\", "/")

\* the MaxCacheSize check (the listing of the cache folder, which may fail: ~ok;
\* config.Mode = Local and writeConfig(config) when the limit is reached) and
\* fmt.Fprintf(w, "http://%s/%s", ...), which reaches the response of the request
\* unless its handler has returned
CheckLimit(r) ==
  /\ ~exited
  /\ fetch[r].pc = "cap"
  /\ \E ok \in BOOLEAN :
     IF config.MaxCacheSize # 0 /\ ~ok
     THEN /\ fetch' = Returned(fetch, r, "failed")
          /\ UNCHANGED <<config, configFile, body>>
     ELSE /\ IF LimitReached
             THEN /\ config' = [config EXCEPT !.Mode = Local]
                  /\ configFile' = writeConfig(config')
                  /\ fetch' = Returned([fetch EXCEPT ![r].flipped = TRUE], r, "ok")
             ELSE /\ UNCHANGED <<config, configFile>>
                  /\ fetch' = Returned(fetch, r, "ok")
          /\ body' = IF req[r].pc = "done" THEN body
                     ELSE [body EXCEPT ![r] =
                             @ \o RemoteURL(fetch[r].filenameCompressed)]
  /\ req' = HandlerAfter(r)
  /\ UNCHANGED <<timestamp, bgStart, clock, cacheExists, cacheDir, tmpDir, reload,
                 http, call, exited>>

(***************************************************************************)
(* reloadConfig: config = getConfig().                                     *)
(***************************************************************************)
\* getConfig, first half: config = newConfig(readConfig())
readConfig ==
  /\ ~exited
  /\ reload.pc = "idle"
  /\ reload' = [pc |-> "write", config |-> newConfig(configFile)]
  /\ UNCHANGED <<config, configFile, timestamp, bgStart, clock, cacheExists, cacheDir,
                 tmpDir, req, fetch, body, exited, http, call>>

\* the response of the GET or POST /reload that is followed, if any:
\* fmt.Fprintf(w, "Config reloaded")
ReloadResponse ==
  IF http.pc = "reload"
  THEN [http EXCEPT !.pc = "done", !.status = 200, !.body = "Config reloaded"]
  ELSE http

\* getConfig, second half: writeConfig(config), the assignment of its result
\* to the global config, and the response
reloadConfig ==
  /\ ~exited
  /\ reload.pc = "write"
  /\ configFile' = writeConfig(reload.config)
  /\ config' = reload.config
  /\ reload' = NotReloading
  /\ http' = ReloadResponse
  /\ UNCHANGED <<timestamp, bgStart, clock, cacheExists, cacheDir, tmpDir, req, fetch,
                 body, exited, call>>

\* time passes
Tick ==
  /\ ~exited
  /\ clock < MaxClock
  /\ clock' = clock + 1
  /\ UNCHANGED <<config, configFile, timestamp, bgStart, cacheExists, cacheDir, tmpDir,
                 req, fetch, body, reload, http, call, exited>>

handleRequest(r) ==
  \/ ReadCache(r)
  \/ LoopTest(r)
  \/ RemoveFile(r)
  \/ ServeLocal(r)
  \/ FreshnessCheck(r)
  \/ Return(r)

retrieveRemote(r) ==
  \/ StartRetrieve(r)
  \/ GetRemote(r)
  \/ MkdirCache(r)
  \/ StatTmp(r)
  \/ MkdirTmp(r)
  \/ downloadFile(r)
  \/ CreateCacheFile(r)
  \/ WriteCacheFile(r)
  \/ CheckLimit(r)

Next ==
  \/ \E r \in Requests : handleRequest(r)
  \/ \E r \in Requests : retrieveRemote(r)
  \/ readConfig
  \/ reloadConfig
  \/ Tick

Spec == Init /\ [][Next]_vars

(***************************************************************************)
(* The routes of the server: one request, of any method and path, followed   *)
(* from http.HandleFunc's routing to its response.  A GET / goes on as the  *)
(* steps of handleRequest above.                                           *)
(***************************************************************************)
Methods == {"GET", "POST", "HEAD"}

Paths ==
  { "/", "/reload", "/favicon.ico", "/x", "/reload/x", "/cache", "/cache/",
    "/cache/a.JPG", "/cache/b.jpeg", "/cache/c.PnG", "/cache/missing.jpg",
    "/cache/n.txt", "/cache/tmp", "/cache/tmp/0.jpg", "/cache/jpg" }

\* the cache folders and tmp folders a request may meet
RouteDirs ==
  { [exists |-> d.exists, dir |-> d.dir, tmp |-> EmptyDir] : d \in InitDirs }
  \cup
  { [exists |-> TRUE,
     dir |-> Put(Put(Put(Put(EmptyDir, ConfigDefaultCacheTmpFolder, "dir"),
                         "b.jpeg", "empty"), "c.PnG", "bad"), "n.txt", "img"),
     tmp |-> Put(EmptyDir, "0.jpg", "img")] }

\* the server serving, with a config.json that may have been edited since it
\* was read
InitRoutes ==
  /\ config \in StartConfigs
  /\ configFile \in StartConfigs
  /\ clock = 0
  /\ timestamp = Unix
  /\ \E d \in RouteDirs : cacheExists = d.exists /\ cacheDir = d.dir /\ tmpDir = d.tmp
  /\ req = [r \in Requests |-> IdleReq]
  /\ fetch = [r \in Requests |-> IdleFetch]
  /\ body = [r \in Requests |-> ""]
  /\ reload = NotReloading
  /\ exited = FALSE
  /\ http = NoRequest
  /\ call = NoCall
  /\ bgStart = Never

RECURSIVE TrimSlashes(_)
TrimSlashes(s) ==
  IF HasPrefix(s, "/") THEN TrimSlashes(SubSeq(s, 2, Len(s))) ELSE s

\* what the file system holds at a path that starts with the cache folder:
\* "none", or the kind of the entry
Lookup(filepath) ==
  LET p == TrimSlashes(SubSeq(filepath, Len(config.CacheFolder) + 1, Len(filepath)))
      t == config.CacheTmpFolder \o PathSeparator
      q == TrimSlashes(SubSeq(p, Len(t) + 1, Len(p)))
  IN IF ~cacheExists THEN "none"
     ELSE IF p = "" THEN "dir"
     ELSE IF p \in DOMAIN cacheDir THEN cacheDir[p]
     ELSE IF HasPrefix(p, t) /\ TmpExists /\ q \in DOMAIN tmpDir THEN tmpDir[q]
     ELSE "none"

\* config.CacheFolder + string(os.PathSeparator) + r.URL.Path[len(config.CacheFolder)+1:]
CachePath(path) ==
  config.CacheFolder \o PathSeparator
    \o SubSeq(path, Len(config.CacheFolder) + 2, Len(path))

\* Supported without the test of the extension
SupportedAny(path) == TRUE

\* the requested filename has one of the supported extensions
Supported(path) == getImgExtension(path) # ""

\* http.Error(w, "Method not allowed", 405) and http.NotFound(w, r)
MethodNotAllowed(h) ==
  [h EXCEPT !.pc = "done", !.status = 405, !.body = "Method not allowed\n"]
NotFound(h) ==
  [h EXCEPT !.pc = "done", !.status = 404, !.body = "404 page not found\n"]

\* w.Header().Set("Access-Control-Allow-Origin", "*")
SetCORS(h) == [h EXCEPT !.cors = TRUE]

\* a request arrives: "/reload" is the route of reloadConfig, every other path
\* that of handleRequest
Receive ==
  /\ ~exited
  /\ http.pc = "idle"
  /\ \E method \in Methods, path \in Paths :
       http' = [NoRequest EXCEPT !.method = method, !.path = path,
                  !.pc = IF path = "/reload" THEN "reload" ELSE "handler"]
  /\ UNCHANGED <<config, configFile, timestamp, bgStart, clock, cacheExists,
                 cacheDir, tmpDir, req, fetch, body, reload, call, exited>>

\* handleRequest up to the test of the path "/": the method, the CORS header,
\* favicon.ico, the files of the cache folder (up to os.Stat), every other path
Dispatch ==
  /\ ~exited
  /\ http.pc = "handler"
  /\ http' =
       IF http.method # "GET" THEN MethodNotAllowed(http)
       ELSE IF http.path = "/favicon.ico" THEN NotFound(SetCORS(http))
       ELSE IF HasPrefix(http.path, "/" \o config.CacheFolder \o "/")
       THEN IF ~Supported(http.path) THEN NotFound(SetCORS(http))
            ELSE IF Lookup(CachePath(http.path)) # "none"
            THEN [SetCORS(http) EXCEPT !.pc = "serve"]
            ELSE NotFound(SetCORS(http))
       ELSE IF http.path # "/" THEN NotFound(SetCORS(http))
       ELSE [SetCORS(http) EXCEPT !.pc = "root"]
  /\ UNCHANGED <<config, configFile, timestamp, bgStart, clock, cacheExists,
                 cacheDir, tmpDir, req, fetch, body, reload, call, exited>>

\* http.ServeFile(w, r, filepath) for a GET without conditions or ranges: the
\* bytes of a file, the listing of a directory, 404 for what does not exist
ServeFile ==
  /\ ~exited
  /\ http.pc = "serve"
  /\ LET what == Lookup(CachePath(http.path))
     IN http' = IF what = "none" THEN NotFound(http)
                ELSE [http EXCEPT !.pc = "done", !.status = 200, !.body = what]
  /\ UNCHANGED <<config, configFile, timestamp, bgStart, clock, cacheExists,
                 cacheDir, tmpDir, req, fetch, body, reload, call, exited>>

\* reloadConfig for the request that is followed
ReloadRead == http.pc = "reload" /\ readConfig
ReloadWrite == http.pc = "reload" /\ reloadConfig

NextRoutes ==
  \/ Receive
  \/ Dispatch
  \/ ServeFile
  \/ ReloadRead
  \/ ReloadWrite

SpecRoutes == InitRoutes /\ [][NextRoutes]_vars

(***************************************************************************)
(* The helper functions newConfig and isImage, each called once on an      *)
(* argument of its own.                                                    *)
(***************************************************************************)
\* the configs a config.json may hold
ListenPorts == {-1, 0, 1023, 1024, 8080, 65535, 65536}
ModeInputs == {"", Local, Remote, "Local"}
FolderInputs == {"", "c"}
IntInputs == {-1, 0, 1}
RemotesInputs == {Nil, <<>>, <<StartRemote>>}
ConfigInputs ==
  [ ListenPort : ListenPorts, LogFileName : {"", "l.log"}, Mode : ModeInputs,
    CacheFolder : FolderInputs, CacheTmpFolder : FolderInputs,
    UpdateInterval : IntInputs, MaxCacheSize : IntInputs,
    ImageQuality : IntInputs, Remotes : RemotesInputs ]

\* the names isImage may be asked about, and what the cache folder holds under
\* the name
Filenames ==
  { "a.jpg", "a.JPG", "b.jpeg", "c.PnG", ".jpg", "jpg", "a.jpg.txt", "a.gif",
    "ajpg", "a.jp", "a.jpg ", "a.jpgx", "n.txt", "tmp", "a.png.", "x" }
Kinds == {"none", "dir", "empty", "img", "bad"}

InitFunctions ==
  /\ config = newConfig(ZeroConfig)
  /\ configFile = config
  /\ clock = 0
  /\ timestamp = Unix
  /\ tmpDir = EmptyDir
  /\ req = [r \in Requests |-> IdleReq]
  /\ fetch = [r \in Requests |-> IdleFetch]
  /\ body = [r \in Requests |-> ""]
  /\ reload = NotReloading
  /\ exited = FALSE
  /\ http = NoRequest
  /\ bgStart = Never
  /\ \/ /\ \E c \in ConfigInputs : call = [fn |-> "newConfig", pc |-> "call", arg |-> c]
        /\ cacheExists = FALSE
        /\ cacheDir = EmptyDir
     \/ \E f \in Filenames, k \in Kinds :
          /\ call = [fn |-> "isImage", pc |-> "call", arg |-> f]
          /\ cacheExists = TRUE
          /\ cacheDir = IF k = "none" THEN EmptyDir ELSE Put(EmptyDir, f, k)

\* newConfig(config)
CallNewConfig ==
  /\ call.pc = "call" /\ call.fn = "newConfig"
  /\ call' = [fn |-> call.fn, pc |-> "returned", arg |-> call.arg,
              ret |-> newConfig(call.arg)]
  /\ UNCHANGED <<config, configFile, timestamp, bgStart, clock, cacheExists,
                 cacheDir, tmpDir, req, fetch, body, reload, http, exited>>

\* isImage(filename); opened tells whether the call got to os.Open, which it
\* does when the extension is a supported one
CallIsImage ==
  /\ call.pc = "call" /\ call.fn = "isImage"
  /\ call' = [fn |-> call.fn, pc |-> "returned", arg |-> call.arg,
              ret |-> isImage(call.arg),
              opened |-> getImgExtension(call.arg) # ""]
  /\ UNCHANGED <<config, configFile, timestamp, bgStart, clock, cacheExists,
                 cacheDir, tmpDir, req, fetch, body, reload, http, exited>>

NextFunctions ==
  \/ CallNewConfig
  \/ CallIsImage

SpecFunctions == InitFunctions /\ [][NextFunctions]_vars

(***************************************************************************)
(* The local serve of handleRequest alone, on cache folders of every kind  *)
(* of entry, with no fetch at work.                                        *)
(***************************************************************************)
\* the entries a cache folder may hold when a request lists it
SelectEntries ==
  Put(Put(Put(Put(Put(Put(EmptyDir, ConfigDefaultCacheTmpFolder, "dir"),
                          "n.txt", "bad"), "a.JPG", "img"), "e.png", "empty"),
          "d.jpeg", "dir"), "b.jpg", "bad")

SelectDirs ==
  { [exists |-> FALSE, dir |-> EmptyDir] }
  \cup { [exists |-> TRUE, dir |-> [n \in S |-> SelectEntries[n]]]
           : S \in SUBSET DOMAIN SelectEntries }

InitSelect ==
  /\ config = newConfig(ZeroConfig)
  /\ configFile = config
  /\ clock = 0
  /\ timestamp = Unix
  /\ \E d \in SelectDirs : cacheExists = d.exists /\ cacheDir = d.dir
  /\ tmpDir = EmptyDir
  /\ req = [r \in Requests |-> IdleReq]
  /\ fetch = [r \in Requests |-> IdleFetch]
  /\ body = [r \in Requests |-> ""]
  /\ reload = NotReloading
  /\ exited = FALSE
  /\ http = NoRequest
  /\ call = NoCall
  /\ bgStart = Never

NextSelect ==
  \E r \in Requests :
     \/ ReadCache(r)
     \/ LoopTest(r)
     \/ RemoveFile(r)
     \/ ServeLocal(r)

SpecSelect == InitSelect /\ [][NextSelect]_vars

(***************************************************************************)
(* The first variant of the program (src/ImgAPICacher.go): handleRequest   *)
(* for GET /, with the local serve decided by the mode and the timestamp,  *)
(* the selection loop over the whole listing, and the remote fetch inline. *)
(* The selection loop of the second variant (src/unnamed/part_000, lines   *)
(* 352-379) is the same.                                                   *)
(***************************************************************************)
\* the config files the first variant is started with
ConfigsV1 ==
  { [ ListenPort |-> ConfigDefaultListenPort, Mode |-> m,
      CacheFolder |-> ConfigDefaultCacheFolder, UpdateInterval |-> u,
      MaxCacheSize |-> 100, Remotes |-> <<StartRemote>> ]
      : m \in {Local, Remote}, u \in UpdateIntervals }

\* the cache folders the first variant may be started on
DirsV1 ==
  { [exists |-> FALSE, dir |-> EmptyDir],
    [exists |-> TRUE,  dir |-> EmptyDir],
    [exists |-> TRUE,  dir |-> Put(EmptyDir, "n.txt", "bad")],
    [exists |-> TRUE,  dir |-> Put(EmptyDir, "a.JPG", "img")],
    [exists |-> TRUE,  dir |-> Put(Put(EmptyDir, "n.txt", "bad"), "a.JPG", "img")] }

\* isImage of the first variant: the extension alone
isImageV1(filename) == getImgExtension(filename) # ""

IdleReqV1 == [pc |-> "idle", files |-> {}, file |-> NoFile, tries |-> 0]
IdleFetchV1 ==
  [ pc |-> "idle", imgURL |-> "", extension |-> "", filenameNoExtension |-> "",
    data |-> "", result |-> "", doneAt |-> Never ]

InitV1 ==
  /\ config \in ConfigsV1
  /\ configFile = config
  /\ clock = 0
  /\ timestamp = Unix
  /\ \E d \in DirsV1 : cacheExists = d.exists /\ cacheDir = d.dir
  /\ tmpDir = EmptyDir
  /\ req = [r \in Requests |-> IdleReqV1]
  /\ fetch = [r \in Requests |-> IdleFetchV1]
  /\ body = [r \in Requests |-> ""]
  /\ reload = NotReloading
  /\ exited = FALSE
  /\ http = NoRequest
  /\ call = NoCall
  /\ bgStart = Never

\* a return of the handler from its remote fetch
ReturnedV1(r, res) ==
  /\ fetch' = [fetch EXCEPT ![r] = [IdleFetchV1 EXCEPT !.pc = "done", !.result = res,
                                      !.doneAt = IF res = "ok" THEN Unix ELSE Never]]
  /\ req' = [req EXCEPT ![r].pc = "done"]

\* the decision for the local serve, the listing and the first pick
StartV1(r) ==
  /\ ~exited
  /\ req[r].pc = "idle"
  /\ IF config.Mode = Local \/ Unix - timestamp < config.UpdateInterval
     THEN IF ~cacheExists \/ ReadDir = {}
          THEN req' = [req EXCEPT ![r].pc = "remote"]
          ELSE \E f \in ReadDir :
                 req' = [req EXCEPT ![r].pc = "loop", ![r].files = ReadDir,
                                    ![r].file = f]
     ELSE req' = [req EXCEPT ![r].pc = "remote"]
  /\ UNCHANGED <<config, configFile, timestamp, bgStart, clock, cacheExists,
                 cacheDir, tmpDir, fetch, body, reload, http, call, exited>>

\* one test of the loop for !isImage(file.Name()): the URL of an image is the
\* response; any other entry is removed (an error, ~ok, is ignored) and the
\* next pick is among all the listed entries
LoopV1(r) ==
  /\ ~exited
  /\ req[r].pc = "loop"
  /\ IF isImageV1(req[r].file.name)
     THEN /\ body' = [body EXCEPT ![r] = @ \o LocalURL(req[r].file.name)]
          /\ req' = [req EXCEPT ![r] = [IdleReqV1 EXCEPT !.pc = "done"]]
          /\ cacheDir' = cacheDir
     ELSE /\ req[r].tries < MaxTries
          /\ \E ok \in BOOLEAN :
               cacheDir' = IF ok THEN Del(cacheDir, req[r].file.name) ELSE cacheDir
          /\ \E f \in req[r].files :
               req' = [req EXCEPT ![r].file = f, ![r].tries = @ + 1]
          /\ body' = body
  /\ UNCHANGED <<config, configFile, timestamp, bgStart, clock, cacheExists,
                 tmpDir, fetch, reload, http, call, exited>>

\* http.Get(remote), the status check, the image URL, the file name made of the
\* timestamp, and os.Stat of the cache folder
GetV1(r) ==
  /\ ~exited
  /\ req[r].pc = "remote"
  /\ fetch[r].pc = "idle"
  /\ \E remote \in { config.Remotes[i] : i \in 1..Len(config.Remotes) } :
     \E response \in Responses :
       LET direct == getExtension(response.ContentType) # ""
           imgURL == IF direct THEN remote ELSE getImgURL(response.Body)
           extension == IF direct THEN getExtension(response.ContentType)
                        ELSE getImgExtension(imgURL)
       IN IF \/ response.err
             \/ ~StatusOK(response.StatusCode)
             \/ ~direct /\ response.readErr
          THEN ReturnedV1(r, "failed")
          ELSE /\ fetch' = [fetch EXCEPT ![r].pc = IF cacheExists THEN "download"
                                                   ELSE "mkdir",
                              ![r].imgURL = imgURL, ![r].extension = extension,
                              ![r].filenameNoExtension = FormatInt(timestamp)]
               /\ req' = req
  /\ UNCHANGED <<config, configFile, timestamp, bgStart, clock, cacheExists,
                 cacheDir, tmpDir, body, reload, http, call, exited>>

\* os.Mkdir(config.CacheFolder, 0755); log.Fatalln on an error
MkdirV1(r) ==
  /\ ~exited
  /\ fetch[r].pc = "mkdir"
  /\ \E ok \in BOOLEAN :
     IF cacheExists \/ ~ok
     THEN exited' = TRUE /\ UNCHANGED <<cacheExists, fetch>>
     ELSE /\ cacheExists' = TRUE
          /\ fetch' = [fetch EXCEPT ![r].pc = "download"]
          /\ exited' = exited
  /\ UNCHANGED <<config, configFile, timestamp, bgStart, clock, cacheDir, tmpDir,
                 req, body, reload, http, call>>

\* downloadFile(filenameUncompressed, imgURL), into the cache folder
DownloadV1(r) ==
  /\ ~exited
  /\ fetch[r].pc = "download"
  /\ LET name == fetch[r].filenameNoExtension \o "." \o fetch[r].extension
     IN \E d \in Downloads :
          IF fetch[r].imgURL = "" \/ d = "failed"
          THEN /\ cacheDir' = Put(cacheDir, name, "empty")
               /\ ReturnedV1(r, "failed")
          ELSE /\ cacheDir' = Put(cacheDir, name, d)
               /\ fetch' = [fetch EXCEPT ![r].pc = "write"]
               /\ req' = req
  /\ UNCHANGED <<config, configFile, timestamp, bgStart, clock, cacheExists,
                 tmpDir, body, reload, http, call, exited>>

\* ioutil.ReadFile(filenameUncompressed), compressImage and ioutil.WriteFile of
\* <timestamp>_compressed.jpg (~ok: one of the two file operations fails)
WriteV1(r) ==
  /\ ~exited
  /\ fetch[r].pc = "write"
  /\ LET name == fetch[r].filenameNoExtension \o "." \o fetch[r].extension
     IN \E ok \in BOOLEAN :
          IF name \in DOMAIN cacheDir /\ ok
          THEN /\ cacheDir' = Put(cacheDir,
                                  fetch[r].filenameNoExtension \o "_compressed.jpg",
                                  compressImage(cacheDir[name]).data)
               /\ fetch' = [fetch EXCEPT ![r].pc = "finish"]
               /\ req' = req
          ELSE /\ cacheDir' = cacheDir
               /\ ReturnedV1(r, "failed")
  /\ UNCHANGED <<config, configFile, timestamp, bgStart, clock, cacheExists,
                 tmpDir, body, reload, http, call, exited>>

\* os.Remove(filenameUncompressed), timestamp = time.Now().UnixNano() and the
\* URL of the new entry as the response
FinishV1(r) ==
  /\ ~exited
  /\ fetch[r].pc = "finish"
  /\ LET name == fetch[r].filenameNoExtension \o "." \o fetch[r].extension
     IN \E ok \in BOOLEAN :
          IF name \in DOMAIN cacheDir /\ ok
          THEN /\ cacheDir' = Del(cacheDir, name)
               /\ timestamp' = UnixNano
               /\ body' = [body EXCEPT ![r] =
                             @ \o RemoteURL(fetch[r].filenameNoExtension
                                              \o "_compressed.jpg")]
               /\ ReturnedV1(r, "ok")
          ELSE /\ UNCHANGED <<cacheDir, timestamp, body>>
               /\ ReturnedV1(r, "failed")
  /\ UNCHANGED <<config, configFile, bgStart, clock, cacheExists, tmpDir, reload,
                 http, call, exited>>

handleRequestV1(r) ==
  \/ StartV1(r)
  \/ LoopV1(r)
  \/ GetV1(r)
  \/ MkdirV1(r)
  \/ DownloadV1(r)
  \/ WriteV1(r)
  \/ FinishV1(r)

NextV1 ==
  \/ \E r \in Requests : handleRequestV1(r)
  \/ Tick

SpecV1 == InitV1 /\ [][NextV1]_vars

(***************************************************************************)
(* Properties.                                                             *)
(***************************************************************************)
\* the handler of request r takes a step
Steps(r) == req'[r] # req[r]

\* the call of retrieveRemote for request r returns in this step
Returns(r) == fetch[r].pc # "done" /\ fetch'[r].pc = "done"

\* the files of the cache folder that have an image extension
Images(dir) == { n \in DOMAIN dir : dir[n] # "dir" /\ getImgExtension(n) # "" }

\* b is exactly one URL http://<host>/<cacheFolder>/<name>.(jpg|jpeg|png)
IsOneURL(b) ==
  /\ HasPrefix(b, "http://" \o Host \o "/" \o config.CacheFolder \o "/")
  /\ getImgExtension(b) # ""
  /\ \A i \in 2..Len(b) : ~HasPrefixAt(b, i, "http://")

\* C1: a GET / whose local serve succeeded and that finds mode local, or the last
\* update less than UpdateInterval seconds ago, at its freshness check returns
\* there: it starts no remote fetch, then or later, and its response is the URL
\* of the local file.
C1_FreshServedLocally ==
  [][\A r \in Requests :
       /\ ( /\ req[r].pc = "check" /\ Steps(r)
            /\ req[r].served
            /\ (config.Mode = Local \/ Unix - timestamp < config.UpdateInterval) )
          => ( /\ req'[r].pc = "done"
               /\ fetch'[r].pc = "idle"
               /\ body'[r] = LocalURL(req[r].fileIndex.name) )
       /\ (req[r].pc = "done" /\ fetch[r].pc = "idle")
          => (fetch'[r].pc = "idle" /\ body'[r] = body[r])
    ]_vars

C1_Witness ==
  \E r \in Requests :
     /\ req[r].pc = "done" /\ req[r].served /\ fetch[r].pc = "idle"
     /\ body[r] = LocalURL("a.JPG")

\* C2 as stated: while mode is local, no GET / starts a remote fetch, whatever
\* the cache folder holds.
C2_NoFetchInLocalMode ==
  [][\A r \in Requests :
       (config.Mode = Local /\ fetch[r].pc = "idle") => fetch'[r].pc = "idle"
    ]_vars

\* C2, amended: a GET / that finds mode local at its freshness check starts a
\* remote fetch if and only if its local serve failed, and that fetch is the
\* synchronous one; it never starts a background fetch.
C2_LocalModeFetchesOnMiss ==
  [][\A r \in Requests :
       (config.Mode = Local /\ req[r].pc = "check" /\ Steps(r))
       => ( /\ (fetch'[r].pc # "idle") <=> ~req[r].served
            /\ ~fetch'[r].async )
    ]_vars

C2_Witness ==
  \E r \in Requests :
     /\ config.Mode = Local /\ config.MaxCacheSize = 0
     /\ ~req[r].served /\ req[r].pc = "done"
     /\ ~fetch[r].async /\ fetch[r].result = "ok"

\* C3: once mode is local it stays local, in memory and in config.json, under
\* every interleaving of GET /, background refreshes and GET /reload.
C3_LocalStaysLocal ==
  [][config.Mode = Local => (config'.Mode = Local /\ configFile'.Mode = Local)]_vars

C5_FlipCountsImages ==
  [][\A r \in Requests :
       ( /\ fetch[r].pc = "cap" /\ Returns(r)
         /\ config.Mode = Remote /\ config'.Mode = Local )
       => Cardinality(Images(cacheDir)) >= config.MaxCacheSize
    ]_vars

\* C6: a remote fetch that completes successfully has added exactly one entry to
\* the cache folder.
C6_OneEntryPerFetch ==
  \A r \in Requests : fetch[r].result = "ok" => fetch[r].added = 1

\* C7: the body of a GET / response is empty or exactly one URL of the form
\* http://<host>/<cacheFolder>/<name>.(jpg|jpeg|png); a background fetch never
\* writes its URL into the response.
C7_BodyIsOneURL ==
  \A r \in Requests : body[r] = "" \/ IsOneURL(body[r])

\* C8: when the local serve failed, the fetch runs synchronously and no
\* background task is started: the handler returns exactly when the fetch has
\* returned, and the response body is the URL of the fetched entry when the
\* fetch succeeded and empty otherwise.
C8_MissFetchesSynchronously ==
  \A r \in Requests :
     (~req[r].served /\ req[r].pc \in {"wait", "return", "done"})
     => ( /\ ~fetch[r].async
          /\ req[r].pc # "return"
          /\ fetch[r].pc # "idle"
          /\ (req[r].pc = "done") <=> (fetch[r].pc = "done")
          /\ body[r] = IF fetch[r].result = "ok"
                       THEN RemoteURL(fetch[r].filenameCompressed)
                       ELSE "" )

C8_Witness ==
  \E r \in Requests :
     /\ ~req[r].served /\ req[r].pc = "done" /\ fetch[r].result = "ok"
     /\ body[r] = RemoteURL(fetch[r].filenameCompressed)

\* C9: no error met while handling a GET / request terminates the process.
C9_NoErrorExits == ~exited

\* C10: lastUpdateTimestamp changes only when a remote fetch has completed its
\* download, cache write and removal of the temporary file: as long as no fetch
\* has got that far, the timestamp is the one set at startup.
C10_TimestampOnlyOnSuccess ==
  (\A r \in Requests : ~fetch[r].removed) => timestamp = 0

\* C11: if the transcoder cannot decode the downloaded bytes, the fetch aborts
\* there: it returns at that step, and no entry is added to the cache folder.
C11_DecodeFailureAborts ==
  [][\A r \in Requests :
       ( /\ fetch[r].pc = "read" /\ fetch'[r] # fetch[r]
         /\ fetch[r].filenameUncompressed \in DOMAIN tmpDir
         /\ compressImage(tmpDir[fetch[r].filenameUncompressed]).err )
       => (fetch'[r].pc = "done" /\ cacheDir' = cacheDir)
    ]_vars

\* C12: a fetch that found no image URL in the body of a response that is no
\* image fails at that step: from there on it creates no cache folder, no tmp
\* folder, no temporary file and no cache entry.
C12_NoURLFailsAtOnce ==
  [][\A r \in Requests :
       ( /\ fetch[r].pc \in {"mkcache", "stattmp", "mktmp", "download"}
         /\ fetch[r].imgURL = ""
         /\ fetch'[r] # fetch[r] )
       => (cacheExists' = cacheExists /\ cacheDir' = cacheDir /\ tmpDir' = tmpDir)
    ]_vars

\* C13: a fetch whose upstream GET is answered with a status other than 200, 301
\* or 302 returns at the status check, having created nothing in the cache
\* folder or its tmp folder, with the mode unchanged and nothing written to the
\* response; a status of 200, 301 or 302 is never the reason of a failure.
C13_BadStatusFails ==
  [][\A r \in Requests :
       (fetch[r].pc = "get" /\ fetch'[r] # fetch[r])
       => /\ \A code \in {200, 301, 302} : fetch'[r].result # InvalidStatus(code)
          /\ fetch'[r].result \notin {"", "failed"}
             => ( /\ fetch'[r].pc = "done"
                  /\ fetch'[r].added = 0 /\ ~fetch'[r].wrote
                  /\ UNCHANGED <<cacheExists, cacheDir, tmpDir, config,
                                 configFile, body>> )
    ]_vars

C13_Witness ==
  \E r \in Requests :
     /\ fetch[r].pc = "done" /\ fetch[r].result = InvalidStatus(404)
     /\ body[r] = "" /\ ~fetch[r].wrote

\* C18: two background refreshes start at least UpdateInterval seconds apart:
\* when one starts, the latest one before it started UpdateInterval seconds ago
\* or earlier.
C18_RefreshesApart ==
  [][\A r \in Requests :
       (fetch[r].pc = "start" /\ fetch[r].async /\ fetch'[r].pc = "get")
       => (bgStart = Never \/ Unix - bgStart >= config.UpdateInterval)
    ]_vars

\* the server was started on a cache folder with fewer than MaxCacheSize entries:
\* of the start folders, only the one with a.JPG holds as many as the largest
\* limit, and no step removes or creates a.JPG
StartedBelowLimit ==
  /\ "a.JPG" \notin DOMAIN cacheDir
  /\ \A d \in InitDirs :
        "a.JPG" \notin DOMAIN d.dir
        => Cardinality(DOMAIN d.dir) < config.MaxCacheSize

\* C19: with MaxCacheSize nonzero and a cache folder that started with fewer
\* entries, the cache folder never holds more than MaxCacheSize entries.
C19_NeverAboveLimit ==
  (config.MaxCacheSize # 0 /\ StartedBelowLimit)
  => Cardinality(DOMAIN cacheDir) <= config.MaxCacheSize

\* the path ends in .jpg, .jpeg or .png, in any case of the letters
HasImgSuffix(s) ==
  \E e \in ImgExtensions :
     /\ Len(s) > Len(e)
     /\ ToLower(SubSeq(s, Len(s) - Len(e), Len(s))) = "." \o e

\* C14: every request of a method other than GET is answered 405, whatever its
\* path, /reload included, and changes neither the config nor the cache; every
\* GET of a path other than /, /reload and /<cacheFolder>/... is answered 404.
C14_OnlyGET ==
  [][/\ (http'.method # "GET" /\ http'.pc = "done")
        => (http'.status = 405 /\ config' = config /\ configFile' = configFile)
     /\ (http'.method # "GET")
        => UNCHANGED <<cacheExists, cacheDir, tmpDir>>
     /\ ( /\ http'.method = "GET" /\ http'.pc = "done"
          /\ http'.path \notin {"/", "/reload"}
          /\ ~HasPrefix(http'.path, "/" \o config.CacheFolder \o "/") )
        => http'.status = 404
    ]_vars

\* C15: every response the server sends carries Access-Control-Allow-Origin: *.
C15_EveryResponseHasCORS == http.pc = "done" => http.cors

\* C16: GET /<cacheFolder>/<filename> is answered 200 with the content of the
\* file if and only if the path ends in .jpg, .jpeg or .png (in any case) and
\* the file exists in the cache folder, and 404 otherwise; no step of the
\* request changes the cache folder, the config or the timestamp.
C16_CacheFileServed ==
  [][( /\ http'.method = "GET"
       /\ HasPrefix(http'.path, "/" \o config.CacheFolder \o "/") )
     => /\ UNCHANGED <<cacheExists, cacheDir, tmpDir, config, configFile, timestamp>>
        /\ http'.pc = "done"
           => IF HasImgSuffix(http'.path) /\ Lookup(CachePath(http'.path)) # "none"
              THEN /\ http'.status = 200
                   /\ http'.body = Lookup(CachePath(http'.path))
              ELSE http'.status = 404
    ]_vars

C16_Witness ==
  /\ http.pc = "done" /\ http.method = "GET" /\ http.path = "/cache/a.JPG"
  /\ http.status = 200 /\ http.body = "img"

\* C17: isImage returns false for every filename that does not end in .jpg,
\* .jpeg or .png (in any case), whatever the cache folder holds under the name,
\* and without opening the file.
C17_NoSuffixNoImage ==
  (call.fn = "isImage" /\ call.pc = "returned" /\ ~HasImgSuffix(call.arg))
  => (call.ret = FALSE /\ ~call.opened)

C17_Witness ==
  /\ call.fn = "isImage" /\ call.pc = "returned" /\ call.arg = "a.jpg.txt"
  /\ cacheDir = Put(EmptyDir, "a.jpg.txt", "img")
  /\ call.ret = FALSE

\* C20: for every input config, newConfig returns a config with ListenPort in
\* 1024..65535, Mode local or remote, non-empty CacheFolder and CacheTmpFolder,
\* UpdateInterval > 0, MaxCacheSize >= 0, ImageQuality > 0 and a remote list
\* that is not nil; each field is the input's when that is in range and the
\* default otherwise; and newConfig of the result is the result.
C20_NewConfigNormalises ==
  (call.fn = "newConfig" /\ call.pc = "returned")
  => LET c == call.arg
         n == call.ret
     IN /\ n.ListenPort \in 1024..65535
        /\ n.Mode \in {Local, Remote}
        /\ n.CacheFolder # "" /\ n.CacheTmpFolder # ""
        /\ n.UpdateInterval > 0 /\ n.MaxCacheSize >= 0 /\ n.ImageQuality > 0
        /\ n.Remotes # Nil
        /\ n.ListenPort = IF c.ListenPort \in 1024..65535 THEN c.ListenPort
                          ELSE ConfigDefaultListenPort
        /\ n.Mode = IF c.Mode \in {Local, Remote} THEN c.Mode ELSE Remote
        /\ n.CacheFolder = IF c.CacheFolder # "" THEN c.CacheFolder
                           ELSE ConfigDefaultCacheFolder
        /\ n.CacheTmpFolder = IF c.CacheTmpFolder # "" THEN c.CacheTmpFolder
                              ELSE ConfigDefaultCacheTmpFolder
        /\ n.UpdateInterval = IF c.UpdateInterval > 0 THEN c.UpdateInterval
                              ELSE ConfigDefaultUpdateInterval
        /\ n.MaxCacheSize = IF c.MaxCacheSize >= 0 THEN c.MaxCacheSize
                            ELSE ConfigDefaultMaxCacheSize
        /\ n.ImageQuality = IF c.ImageQuality > 0 THEN c.ImageQuality
                            ELSE ConfigDefaultImageQuality
        /\ n.Remotes = IF c.Remotes # Nil THEN c.Remotes
                       ELSE <<ConfigDefaultRemote1, ConfigDefaultRemote2>>
        /\ newConfig(n) = n

C20_Witness ==
  /\ call.fn = "newConfig" /\ call.pc = "returned"
  /\ call.arg.ListenPort = 1023 /\ call.ret.ListenPort = ConfigDefaultListenPort
  /\ call.arg.Mode = Local /\ call.ret.Mode = Local
  /\ call.arg.Remotes = Nil /\ call.ret.Remotes # Nil

\* C21: while requests are handled and config.json is not edited, the mode
\* changes from remote to local only in a state where MaxCacheSize # 0 and the
\* cache folder holds at least MaxCacheSize entries; with MaxCacheSize = 0 the
\* mode does not change; and the mode never changes from local to remote.
C21_ModeChangesOnlyAtLimit ==
  [][/\ (config.Mode = Remote /\ config'.Mode = Local)
        => ( /\ config.MaxCacheSize # 0
             /\ Cardinality(DOMAIN cacheDir) >= config.MaxCacheSize )
     /\ config.MaxCacheSize = 0 => config'.Mode = config.Mode
     /\ config.Mode = Local => config'.Mode = Local
    ]_vars

\* the handler of request r is at its local serve: the list, the loop, the removal
InLocalServe(r) == req[r].pc \in {"idle", "loop", "remove", "after"}

\* C22 as stated: every listed entry that fails the validity check when it is
\* picked, a subfolder included, is out of the cache folder when it leaves the
\* list of the request.
C22_FailedEntryDeleted ==
  [][\A r \in Requests :
       ( /\ req[r].pc \in {"loop", "remove"} /\ Steps(r)
         /\ req[r].fileIndex \notin req'[r].files )
       => req[r].fileIndex.name \notin DOMAIN cacheDir'
    ]_vars

\* C22, amended: a listed entry that fails the validity check when it is picked
\* leaves the list of the request and is not picked again; a file is removed
\* with os.Remove at that moment (or stays, when os.Remove fails), a directory
\* stays in the cache folder; the request touches no other entry.
C22_FailedEntryDropped ==
  [][\A r \in Requests :
       LET picked == req[r].fileIndex
       IN /\ (req[r].pc = "loop" /\ Steps(r) /\ ~isImage(picked.name))
             => IF picked.isDir
                THEN cacheDir' = cacheDir /\ picked \notin req'[r].files
                ELSE /\ req'[r].pc = "remove" /\ req'[r].fileIndex = picked
                     /\ cacheDir' = cacheDir
          /\ (req[r].pc = "remove" /\ Steps(r))
             => /\ picked \notin req'[r].files
                /\ cacheDir' \in {cacheDir, Del(cacheDir, picked.name)}
          /\ (req[r].pc \in {"loop", "remove"} /\ Steps(r))
             => /\ req'[r].files \subseteq req[r].files
                /\ req'[r].pc = "loop" => req'[r].fileIndex \in req'[r].files
          /\ (InLocalServe(r) /\ Steps(r))
             => \A n \in DOMAIN cacheDir \ {picked.name} :
                   n \in DOMAIN cacheDir' /\ cacheDir'[n] = cacheDir[n]
    ]_vars

C22_Witness ==
  \E r \in Requests :
     /\ req[r].pc = "loop"
     /\ req[r].files = {[name |-> "a.JPG", isDir |-> FALSE]}
     /\ ConfigDefaultCacheTmpFolder \in DOMAIN cacheDir
     /\ cacheDir[ConfigDefaultCacheTmpFolder] = "dir"

\* the entries of the cache folder that pass the validity check
ValidEntries == IF cacheExists THEN { n \in DOMAIN cacheDir : isImage(n) } ELSE {}

\* C23: the selection of the local serve ends for every listing, after at most
\* as many failures of the validity check as there are listed entries (every
\* failure takes one entry out of the list), and it ends in "local serve
\* failed" exactly when no listed entry passes the validity check: when one
\* does, the URL of a valid entry is the response.
C23_SelectionEnds ==
  [][\A r \in Requests :
       LET picked == req[r].fileIndex
       IN /\ (req[r].pc = "loop" /\ Steps(r) /\ ~isImage(picked.name))
             => \/ req'[r].pc = "remove" /\ req'[r].files = req[r].files
                \/ /\ picked \in req[r].files
                   /\ req'[r].files = req[r].files \ {picked}
          /\ (req[r].pc = "remove" /\ Steps(r))
             => /\ picked \in req[r].files
                /\ req'[r].files = req[r].files \ {picked}
          /\ (req[r].pc \in {"loop", "remove"} /\ req'[r].pc \in {"loop", "remove"})
             => req'[r].files # {}
          /\ (req'[r].pc = "check" /\ Steps(r))
             => /\ req'[r].served <=> ValidEntries # {}
                /\ IF req'[r].served
                   THEN \E n \in ValidEntries : body'[r] = LocalURL(n)
                   ELSE body'[r] = ""
    ]_vars

C23_Witness ==
  \E r \in Requests :
     /\ req[r].pc = "check" /\ req[r].served
     /\ body[r] = LocalURL("b.jpg")
     /\ DOMAIN cacheDir = {ConfigDefaultCacheTmpFolder, "d.jpeg", "b.jpg"}


\* C24: in the earlier variants the selection loop ends for every non-empty
\* listing: when no listed entry has an image extension, the loop is left (for
\* the remote fetch) after at most as many failed picks as there are listed
\* entries.
C24_EarlierLoopEnds ==
  \A r \in Requests :
    (/\ req[r].pc = "loop"
     /\ \A f \in req[r].files : ~isImageV1(f.name))
      => req[r].tries <= Cardinality(req[r].files)

\* the most recent successful fetch of the first variant, in seconds
LastFetchV1 ==
  LET done == { fetch[r].doneAt : r \in Requests } \ {Never}
  IN IF done = {} THEN Never
     ELSE CHOOSE t \in done : \A u \in done : u <= t

\* C28: in the first variant a GET / in remote mode that arrives at least
\* updateInterval seconds after the last successful fetch performs a new
\* remote fetch.
C28_StaleCacheRefetches ==
  [][\A r \in Requests :
       (/\ req[r].pc = "idle"
        /\ req'[r].pc # "idle"
        /\ config.Mode = Remote
        /\ LastFetchV1 # Never
        /\ Unix - LastFetchV1 >= config.UpdateInterval)
         => req'[r].pc = "remote"]_vars


\* C25: two remote fetches never use the same temporary file name nor the same
\* cache file name.
C25_FetchNamesDistinct ==
  \A r1, r2 \in Requests :
    r1 # r2 =>
      /\ fetch[r1].filenameUncompressed # ""
           => fetch[r1].filenameUncompressed # fetch[r2].filenameUncompressed
      /\ fetch[r1].filenameCompressed # ""
           => fetch[r1].filenameCompressed # fetch[r2].filenameCompressed



\* C26: the cache entry a remote fetch has written is not deleted by the lazy
\* cleanup of a concurrent request: when the URL of the new entry is written as
\* the response, the entry is in the cache folder.
C26_ReturnedEntryExists ==
  [][\A r \in Requests :
       (/\ fetch[r].pc = "cap"
        /\ body'[r] # body[r])
         => fetch[r].filenameCompressed \in DOMAIN cacheDir]_vars



\* C27: whenever a remote fetch selects a source, the configured remote list is
\* not empty.
C27_SourceListNotEmpty ==
  \A r \in Requests :
    fetch[r].pc = "get" => config.Remotes # Nil /\ Len(config.Remotes) > 0


====
